---- MODULE Spec2Model ----
(***************************************************************************)
(* A model of app/parse.py: a sequential crawl of a paginated quote        *)
(* listing.  Every quote container of a listing page is turned into a      *)
(* Quote after its author has been resolved through the process-wide       *)
(* AUTHOR_CACHE; the quotes and the cache are then written to two CSV      *)
(* files.                                                                  *)
(*                                                                         *)
(* The web site is the environment.  A fetched listing page shows how many *)
(* .quote nodes and whether a .next node it holds; the content of a quote  *)
(* container is read when parse_single_quote is applied to it, the content *)
(* of an author page when parse_single_author fetches it.                  *)
(***************************************************************************)
EXTENDS Integers, Sequences, FiniteSets, TLC

VARIABLES
    pc,            \* position of main(): start, extract, loop, write_quotes,
                   \* write_authors, done, failed (an exception left main)
    AUTHOR_CACHE,  \* the dict of line 12, as its items in insertion order
    soup,          \* the listing page get_quotes holds (local `soup`)
    idx,           \* position of the list comprehension of line 72
    page_quotes,   \* the list the comprehension of line 72 is building
    all_quotes,    \* local `all_quotes` of get_quotes
    page_num,      \* local `page_num` of get_quotes (0: not yet assigned)
    quotes_csv,    \* the file at output_csv_path
    author_csv,    \* the file author.csv
    error,         \* the exception that ended the run, "none" otherwise
    log,           \* the lines given to logging.info
    chain_len,     \* the site: number of listing pages linked by .next
    listing,       \* the site: the quote containers read so far, per page
    trace,         \* the requests and extractions made, in order
    non2xx,        \* a response with a non-2xx status has been received
    calls          \* the calls of parse_single_author made by ResolveCall

vars == <<pc, AUTHOR_CACHE, soup, idx, page_quotes, all_quotes, page_num,
          quotes_csv, author_csv, error, log, chain_len, listing, trace,
          non2xx, calls>>

(***************************************************************************)
(* Bounds of the model.                                                    *)
(***************************************************************************)
MaxPages == 2
MaxQuotes == 2
MaxCalls == 3

(***************************************************************************)
(* The site's vocabulary.                                                  *)
(***************************************************************************)
None == "<None>"

Names == {"Alice", "Bob"}

\* A reference as found in an href: rooted ("/author/a") or relative ("page/2/").
Ref(rooted, path) == [rooted |-> rooted, path |-> path]

AuthorRefs == {Ref(TRUE, <<"author", "a">>), Ref(TRUE, <<"author", "b">>)}

NoRef == Ref(FALSE, <<>>)

NoUrl == [host |-> "", path |-> <<>>]

BASE_URL == [host |-> "quotes.toscrape.com", path |-> <<>>]

\* urljoin against a base whose path is a directory: a rooted reference
\* replaces the path, a relative one is appended to it.
urljoin(base, ref) ==
    IF ref.rooted
    THEN [host |-> base.host, path |-> ref.path]
    ELSE [host |-> base.host, path |-> base.path \o ref.path]

\* Variant: the url is made before page_num is incremented.
PageRef_stale(n) == Ref(FALSE, <<"page", ToString(n - 1)>>)

\* The reference f"page/{page_num}/" of line 89.
PageRef(n) == Ref(FALSE, <<"page", ToString(n)>>)

(***************************************************************************)
(* The dataclasses and their field lists.                                  *)
(***************************************************************************)
Quote(text, author, tags) == [text |-> text, author |-> author, tags |-> tags]

Author(name, born_date, born_location, description) ==
    [name |-> name, born_date |-> born_date,
     born_location |-> born_location, description |-> description]

QUOTE_FIELDS == <<"text", "author", "tags">>

AUTHOR_FIELDS == <<"name", "born_date", "born_location", "description">>

(***************************************************************************)
(* dict, in insertion order.                                               *)
(***************************************************************************)
Keys(d) == {d[i].key : i \in DOMAIN d}

DictSet(d, k, v) ==
    IF k \in Keys(d)
    THEN [i \in DOMAIN d |-> IF d[i].key = k THEN [key |-> k, value |-> v] ELSE d[i]]
    ELSE Append(d, [key |-> k, value |-> v])

Values(d) == [i \in DOMAIN d |-> d[i].value]

(***************************************************************************)
(* What requests.get can bring back.  requests.get raises on a transport   *)
(* failure ("net_fail") and returns a response otherwise, whatever its     *)
(* status; the code reads .content of the response and never its status.   *)
(* The body of a non-2xx response is the site's error page, which holds    *)
(* none of the nodes the selectors look for.                               *)
(***************************************************************************)
AuthorSelectors ==
    <<".author-title", ".author-born-date", ".author-born-location",
      ".author-description">>

\* The site's author pages: the text of the page at url under selector sel.
\* The page at /author/a is Alice's, the one at /author/b is Bob's.
FieldText(url, sel) ==
    IF sel = ".author-title"
    THEN (IF url.path = <<"author", "a">> THEN "Alice" ELSE "Bob")
    ELSE url.path[Len(url.path)] \o sel

\* The body of a response: the selector (if any) that matches nothing in it.
AuthorBody(absent) == [absent |-> absent]

ErrorBody == AuthorBody(AuthorSelectors[1])

AuthorResponses ==
    {[outcome |-> "net_fail", body |-> ErrorBody],
     [outcome |-> "http_error", body |-> ErrorBody],
     [outcome |-> "ok", body |-> AuthorBody(None)]}
    \cup {[outcome |-> "ok", body |-> AuthorBody(AuthorSelectors[i])] :
            i \in DOMAIN AuthorSelectors}

\* soup.select_one(sel).text on an author page fetched from url; None stands
\* for the AttributeError raised when select_one returns None.
select_one_text(body, url, sel) ==
    IF body.absent = sel THEN None ELSE FieldText(url, sel)

\* The listing page k of a site of chain_len pages, as a response.
ListingResponses(k, len) ==
    {[outcome |-> "net_fail", quotes |-> 0, next |-> FALSE],
     [outcome |-> "http_error", quotes |-> 0, next |-> FALSE]}
    \cup {[outcome |-> "ok", quotes |-> n, next |-> k < len] : n \in 0..MaxQuotes}

NoSoup == [quotes |-> 0, next |-> FALSE]

\* The quote container i of listing page k.  Its text and tags are fixed by
\* its place; its author, its first <a> and that link's href are the site's.
TextAt(k, i) == "quote " \o ToString(k) \o "." \o ToString(i)

TagsAt(i) == IF i % 2 = 1 THEN <<"life", "life">> ELSE <<>>

QuoteContainers(k, i) ==
    {[author |-> a, a |-> l, href |-> h, text |-> t, tags |-> TagsAt(i)] :
        a \in Names, l \in {"href"}, h \in AuthorRefs, t \in {TextAt(k, i), None}}
    \cup {[author |-> a, a |-> l, href |-> NoRef, text |-> TextAt(k, i), tags |-> TagsAt(i)] :
        a \in Names, l \in {"absent", "no_href"}}
    \cup {[author |-> None, a |-> "href", href |-> h, text |-> TextAt(k, i), tags |-> TagsAt(i)] :
        h \in {Ref(TRUE, <<"author", "a">>)}}

(***************************************************************************)
(* parse_single_author (lines 43-55), given the response requests.get      *)
(* brings back if it is called.  The result holds the cache afterwards,     *)
(* the exception raised ("none" if none), the urls requested and the lines  *)
(* logged.                                                                  *)
(***************************************************************************)
Outcome(cache, raised, fetched, logged) ==
    [cache |-> cache, raised |-> raised, fetched |-> fetched, logged |-> logged]

MissingField(body, url) ==
    \E i \in DOMAIN AuthorSelectors : select_one_text(body, url, AuthorSelectors[i]) = None

\* Lines 45-53, the cache miss: the page is fetched, the four fields are
\* read, and the Author is stored under key.
fetch_author(cache, key, author_url, resp) ==
    LET url == urljoin(BASE_URL, author_url) IN
    IF resp.outcome = "net_fail"
    THEN Outcome(cache, "RequestException", <<url>>, <<>>)
    ELSE IF MissingField(resp.body, url)
    THEN Outcome(cache, "AttributeError", <<url>>, <<>>)
    ELSE LET author ==
               Author(select_one_text(resp.body, url, ".author-title"),
                      select_one_text(resp.body, url, ".author-born-date"),
                      select_one_text(resp.body, url, ".author-born-location"),
                      select_one_text(resp.body, url, ".author-description"))
         IN Outcome(DictSet(cache, key, author), "none", <<url>>, <<>>)

\* Line 55, the cache hit.
cache_hit(cache, author_name) ==
    Outcome(cache, "none", <<>>, <<"Getting author " \o author_name \o " from cache">>)

\* Variant: the test of line 44 is dropped, every call fetches.
parse_single_author_uncached(cache, author_name, author_url, resp) ==
    fetch_author(cache, author_name, author_url, resp)

\* Variant: the Author is stored under the name its own page shows.
parse_single_author_by_title(cache, author_name, author_url, resp) ==
    IF author_name \notin Keys(cache)
    THEN fetch_author(cache,
                      select_one_text(resp.body, urljoin(BASE_URL, author_url), ".author-title"),
                      author_url, resp)
    ELSE cache_hit(cache, author_name)

\* Variant: an entry is stored before the fields are read, and stays when
\* one of them is missing.
parse_single_author_partial(cache, author_name, author_url, resp) ==
    IF author_name \notin Keys(cache)
    THEN LET r == fetch_author(cache, author_name, author_url, resp) IN
         IF r.raised = "AttributeError"
         THEN [r EXCEPT !.cache = DictSet(cache, author_name, Author(None, None, None, None))]
         ELSE r
    ELSE cache_hit(cache, author_name)

parse_single_author(cache, author_name, author_url, resp) ==
    IF author_name \notin Keys(cache)
    THEN fetch_author(cache, author_name, author_url, resp)
    ELSE cache_hit(cache, author_name)

(***************************************************************************)
(* parse_single_quote (lines 58-66) on container c.  `at` tells where an   *)
(* exception was raised: in the container or in the author's resolution;   *)
(* `resolved` tells whether parse_single_author was called.                *)
(***************************************************************************)
NoQuote == Quote(None, None, <<>>)

QuoteOutcome(r, at, resolved, quote) ==
    [cache |-> r.cache, raised |-> r.raised, fetched |-> r.fetched,
     logged |-> r.logged, at |-> at, resolved |-> resolved, quote |-> quote]

\* Variant: a container without a .text node yields a Quote with an empty
\* text instead of raising.
parse_single_quote_lenient(cache, c, resp) ==
    IF c.author = None
    THEN QuoteOutcome(Outcome(cache, "AttributeError", <<>>, <<>>), "quote", FALSE, NoQuote)
    ELSE IF c.a = "absent"
    THEN QuoteOutcome(Outcome(cache, "TypeError", <<>>, <<>>), "quote", FALSE, NoQuote)
    ELSE IF c.a = "no_href"
    THEN QuoteOutcome(Outcome(cache, "KeyError", <<>>, <<>>), "quote", FALSE, NoQuote)
    ELSE LET r == parse_single_author(cache, c.author, c.href, resp) IN
         IF r.raised # "none"
         THEN QuoteOutcome(r, "author", TRUE, NoQuote)
         ELSE QuoteOutcome(r, "none", TRUE,
                           Quote(IF c.text = None THEN "" ELSE c.text, c.author, c.tags))

parse_single_quote(cache, c, resp) ==
    IF c.author = None
    THEN QuoteOutcome(Outcome(cache, "AttributeError", <<>>, <<>>), "quote", FALSE, NoQuote)
    ELSE IF c.a = "absent"
    THEN QuoteOutcome(Outcome(cache, "TypeError", <<>>, <<>>), "quote", FALSE, NoQuote)
    ELSE IF c.a = "no_href"
    THEN QuoteOutcome(Outcome(cache, "KeyError", <<>>, <<>>), "quote", FALSE, NoQuote)
    ELSE LET r == parse_single_author(cache, c.author, c.href, resp) IN
         IF r.raised # "none"
         THEN QuoteOutcome(r, "author", TRUE, NoQuote)
         ELSE IF c.text = None
         THEN QuoteOutcome(Outcome(r.cache, "AttributeError", r.fetched, r.logged),
                           "quote", TRUE, NoQuote)
         ELSE QuoteOutcome(r, "none", TRUE, Quote(c.text, c.author, c.tags))

is_next_page(page_soup) == page_soup.next


(***************************************************************************)
(* The CSV files.  csv.writer writes str(field) for every field of a row:  *)
(* a string as it is, the tags list as Python prints a list of strings.    *)
(***************************************************************************)
RECURSIVE join(_)
join(items) ==
    IF items = <<>> THEN ""
    ELSE IF Len(items) = 1 THEN "'" \o items[1] \o "'"
    ELSE "'" \o items[1] \o "', " \o join(Tail(items))

str_list(items) == "[" \o join(items) \o "]"

\* astuple(quote), as the row csv.writer makes of it.
astuple_quote(quote) == <<quote.text, quote.author, str_list(quote.tags)>>

\* astuple(author), as the row csv.writer makes of it.
astuple_author(author) ==
    <<author.name, author.born_date, author.born_location, author.description>>

NoFile == [written |-> FALSE, rows |-> <<>>]

File(rows) == [written |-> TRUE, rows |-> rows]

\* The rows write_quotes_to_csv writes (lines 98-100).
write_quotes_to_csv(quotes) ==
    <<QUOTE_FIELDS>> \o [i \in DOMAIN quotes |-> astuple_quote(quotes[i])]

\* The rows write_author_to_csv writes (lines 105-107).
write_author_to_csv(cache) ==
    <<AUTHOR_FIELDS>> \o [i \in DOMAIN cache |-> astuple_author(Values(cache)[i])]

(***************************************************************************)
(* The record of what the run did.                                         *)
(***************************************************************************)
Event(ev, page, i, url, name) ==
    [ev |-> ev, page |-> page, idx |-> i, url |-> url, name |-> name, quotes |-> 0]

\* The listing pages requested so far.
Fetched == SelectSeq(trace, LAMBDA e : e.ev = "fetch_listing")

\* The listing page whose containers are being read: the last one parsed.
CurPage == Len(listing)

Raise(exc, at) == [exc |-> exc, at |-> at]

NoError == Raise("none", "none")

(***************************************************************************)
(* The initial state: main("quotes.csv") is about to run, the cache is     *)
(* empty (line 12), and the site has chain_len listing pages.              *)
(***************************************************************************)
Init ==
    /\ pc = "start"
    /\ AUTHOR_CACHE = <<>>
    /\ soup = NoSoup
    /\ idx = 0
    /\ page_quotes = <<>>
    /\ all_quotes = <<>>
    /\ page_num = 0
    /\ quotes_csv = NoFile
    /\ author_csv = NoFile
    /\ error = NoError
    /\ log = <<>>
    /\ chain_len \in 1..MaxPages
    /\ listing = <<>>
    /\ trace = <<>>
    /\ non2xx = FALSE
    /\ calls = <<>>

(***************************************************************************)
(* requests.get of listing page k at url, and BeautifulSoup of its content *)
(* (lines 81-82 and 89-90).                                                *)
(***************************************************************************)
FetchListing(k, url, resp) ==
    /\ trace' = Append(trace, [Event("fetch_listing", k, 0, url, "")
                                 EXCEPT !.quotes = resp.quotes])
    /\ non2xx' = (non2xx \/ resp.outcome = "http_error")
    /\ IF resp.outcome = "net_fail"
       THEN /\ pc' = "failed"
            /\ error' = Raise("RequestException", "listing")
            /\ UNCHANGED <<soup, idx, page_quotes, listing>>
       ELSE /\ pc' = "extract"
            /\ soup' = [quotes |-> resp.quotes, next |-> resp.next]
            /\ idx' = 1
            /\ page_quotes' = <<>>
            /\ listing' = Append(listing, <<>>)
            /\ UNCHANGED error

\* get_quotes, lines 80-83: the root page is fetched and its .quote nodes
\* are selected.
GetQuotesStart ==
    /\ pc = "start"
    /\ log' = Append(log, "Start parsing Quotes")
    /\ \E resp \in ListingResponses(1, chain_len) : FetchListing(1, BASE_URL, resp)
    /\ UNCHANGED <<AUTHOR_CACHE, all_quotes, page_num, quotes_csv, author_csv,
                   chain_len, calls>>

\* The responses the site may give to the requests parse_single_quote makes
\* on container c: a response is drawn only if a request is made.
ResponsesFor(cache, c) ==
    LET probe == CHOOSE resp \in AuthorResponses : resp.outcome = "net_fail" IN
    IF parse_single_quote(cache, c, probe).fetched = <<>>
    THEN {probe}
    ELSE AuthorResponses

\* One turn of the list comprehension of line 72: parse_single_quote on the
\* next .quote node of the page.
ExtractQuote ==
    /\ pc = "extract"
    /\ idx <= soup.quotes
    /\ \E c \in QuoteContainers(CurPage, idx) :
       \E resp \in ResponsesFor(AUTHOR_CACHE, c) :
          LET r == parse_single_quote(AUTHOR_CACHE, c, resp)
              p == CurPage
          IN /\ AUTHOR_CACHE' = r.cache
             /\ log' = log \o r.logged
             /\ listing' = [listing EXCEPT ![Len(listing)] =
                              Append(@, [text |-> c.text, author |-> c.author,
                                         tags |-> c.tags, a |-> c.a])]
             /\ non2xx' = (non2xx \/ (r.fetched # <<>> /\ resp.outcome = "http_error"))
             /\ trace' = trace
                  \o (IF r.resolved THEN <<Event("resolve", p, idx, NoUrl, c.author)>> ELSE <<>>)
                  \o [j \in DOMAIN r.fetched |->
                        Event("fetch_author", p, idx, r.fetched[j], c.author)]
                  \o (IF r.raised = "none"
                      THEN <<Event("quote", p, idx, NoUrl, c.author)>> ELSE <<>>)
             /\ IF r.raised = "none"
                THEN /\ page_quotes' = Append(page_quotes, r.quote)
                     /\ idx' = idx + 1
                     /\ UNCHANGED <<pc, error>>
                ELSE /\ pc' = "failed"
                     /\ error' = Raise(r.raised, r.at)
                     /\ UNCHANGED <<page_quotes, idx>>
    /\ UNCHANGED <<soup, all_quotes, page_num, quotes_csv, author_csv,
                   chain_len, calls>>

\* Variant: the page's quotes replace the ones gathered so far.
extend_replace(quotes, more) == more

\* all_quotes.extend(more), line 91.
extend(quotes, more) == quotes \o more

\* The comprehension of line 72 is over: the page's quotes become all_quotes
\* (lines 83-84, root page) or are added to it (line 91).
PageExtracted ==
    /\ pc = "extract"
    /\ idx > soup.quotes
    /\ IF page_num = 0
       THEN all_quotes' = page_quotes /\ page_num' = 1
       ELSE all_quotes' = extend(all_quotes, page_quotes) /\ UNCHANGED page_num
    /\ pc' = "loop"
    /\ UNCHANGED <<AUTHOR_CACHE, soup, idx, page_quotes, quotes_csv, author_csv,
                   error, log, chain_len, listing, trace, non2xx, calls>>

\* The loop of lines 86-90, entered from one of the positions `at`: the next
\* page is numbered and fetched.
FetchNextPageAt(at) ==
    /\ pc \in at
    /\ is_next_page(soup)
    /\ page_num < MaxPages
    /\ page_num' = page_num + 1
    /\ log' = Append(log, "Start parsing page " \o ToString(page_num'))
    /\ \E resp \in ListingResponses(page_num', chain_len) :
          FetchListing(page_num', urljoin(BASE_URL, PageRef(page_num')), resp)
    /\ UNCHANGED <<AUTHOR_CACHE, all_quotes, quotes_csv, author_csv,
                   chain_len, calls>>

\* The eager variant: the next page is requested while the comprehension of
\* line 72 is still at work on the current one.
FetchNextPage_eager == FetchNextPageAt({"extract", "loop"})

\* Line 86 is reached only once get_single_page_quotes has returned.
FetchNextPage == FetchNextPageAt({"loop"})

\* The loop of line 86 left: get_quotes returns all_quotes (line 93).
GetQuotesReturn ==
    /\ pc = "loop"
    /\ ~is_next_page(soup)
    /\ pc' = "write_quotes"
    /\ UNCHANGED <<AUTHOR_CACHE, soup, idx, page_quotes, all_quotes, page_num,
                   quotes_csv, author_csv, error, log, chain_len, listing,
                   trace, non2xx, calls>>

\* main, line 112: open() raises OSError on an unwritable path and leaves
\* the file alone, or the header and the rows are written.
WriteQuotesToCsv ==
    /\ pc = "write_quotes"
    /\ \E writable \in BOOLEAN :
          IF writable
          THEN /\ quotes_csv' = File(write_quotes_to_csv(all_quotes))
               /\ pc' = "write_authors"
               /\ UNCHANGED error
          ELSE /\ pc' = "failed"
               /\ error' = Raise("OSError", "quotes_csv")
               /\ UNCHANGED quotes_csv
    /\ UNCHANGED <<AUTHOR_CACHE, soup, idx, page_quotes, all_quotes, page_num,
                   author_csv, log, chain_len, listing, trace, non2xx, calls>>

\* main, line 113.
WriteAuthorToCsv ==
    /\ pc = "write_authors"
    /\ \E writable \in BOOLEAN :
          IF writable
          THEN /\ author_csv' = File(write_author_to_csv(AUTHOR_CACHE))
               /\ pc' = "done"
               /\ UNCHANGED error
          ELSE /\ pc' = "failed"
               /\ error' = Raise("OSError", "author_csv")
               /\ UNCHANGED author_csv
    /\ UNCHANGED <<AUTHOR_CACHE, soup, idx, page_quotes, all_quotes, page_num,
                   quotes_csv, log, chain_len, listing, trace, non2xx, calls>>

Next ==
    \/ GetQuotesStart
    \/ ExtractQuote
    \/ PageExtracted
    \/ FetchNextPage
    \/ GetQuotesReturn
    \/ WriteQuotesToCsv
    \/ WriteAuthorToCsv

Spec == Init /\ [][Next]_vars


(***************************************************************************)
(* A second specification: parse_single_author called any number of times  *)
(* (up to MaxCalls) with any names and references, from an empty cache.    *)
(* The code catches no exception, so a call that raises is the last one.   *)
(***************************************************************************)
InitResolve ==
    /\ pc = "resolve"
    /\ AUTHOR_CACHE = <<>>
    /\ soup = NoSoup
    /\ idx = 0
    /\ page_quotes = <<>>
    /\ all_quotes = <<>>
    /\ page_num = 0
    /\ quotes_csv = NoFile
    /\ author_csv = NoFile
    /\ error = NoError
    /\ log = <<>>
    /\ chain_len = 1
    /\ listing = <<>>
    /\ trace = <<>>
    /\ non2xx = FALSE
    /\ calls = <<>>

\* The responses the site may give to the request (if any) of a call.
ResponsesTo(cache, name, ref) ==
    LET probe == CHOOSE resp \in AuthorResponses : resp.outcome = "net_fail" IN
    IF parse_single_author(cache, name, ref, probe).fetched = <<>>
    THEN {probe}
    ELSE AuthorResponses

ResolveCall ==
    /\ pc = "resolve"
    /\ Len(calls) < MaxCalls
    /\ \E name \in Names, ref \in AuthorRefs :
       \E resp \in ResponsesTo(AUTHOR_CACHE, name, ref) :
          LET r == parse_single_author(AUTHOR_CACHE, name, ref, resp) IN
          /\ AUTHOR_CACHE' = r.cache
          /\ log' = log \o r.logged
          /\ calls' = Append(calls, [name |-> name, ref |-> ref,
                                     fetched |-> r.fetched, raised |-> r.raised])
          /\ non2xx' = (non2xx \/ (r.fetched # <<>> /\ resp.outcome = "http_error"))
          /\ IF r.raised = "none"
             THEN UNCHANGED <<pc, error>>
             ELSE pc' = "failed" /\ error' = Raise(r.raised, "author")
    /\ UNCHANGED <<soup, idx, page_quotes, all_quotes, page_num, quotes_csv,
                   author_csv, chain_len, listing, trace>>

NextResolve == ResolveCall

SpecResolve == InitResolve /\ [][NextResolve]_vars


(***************************************************************************)
(* Properties.                                                             *)
(***************************************************************************)
Last(seq) == seq[Len(seq)]

\* The calls of parse_single_author that requested the author page.
FetchingCalls(name) ==
    {i \in DOMAIN calls : calls[i].name = name /\ calls[i].fetched # <<>>}

FirstCall(name) ==
    CHOOSE i \in DOMAIN calls :
        /\ calls[i].name = name
        /\ \A j \in DOMAIN calls : calls[j].name = name => i <= j

C1_State ==
    /\ \A name \in Names : Cardinality(FetchingCalls(name)) <= 1
    /\ \A i, j \in DOMAIN AUTHOR_CACHE :
          AUTHOR_CACHE[i].key = AUTHOR_CACHE[j].key => i = j
    /\ \A i \in DOMAIN AUTHOR_CACHE :
          LET first == calls[FirstCall(AUTHOR_CACHE[i].key)] IN
          /\ first.fetched = <<urljoin(BASE_URL, first.ref)>>
          /\ AUTHOR_CACHE[i].value.born_date =
                FieldText(first.fetched[1], ".author-born-date")

C1_Step ==
    (calls' # calls /\ Last(calls').name \in Keys(AUTHOR_CACHE))
        => (AUTHOR_CACHE' = AUTHOR_CACHE /\ Last(calls').fetched = <<>>)

\* C1: in every sequence of parse_single_author calls from an empty cache,
\* the author page is requested at most once per name; a call whose name is
\* already a key requests nothing and leaves the cache as it is, so that the
\* entry of a name is the one its first call stored (whatever reference a
\* later call carries) and no name has two entries.
C1_FetchOncePerName == [](C1_State) /\ [][C1_Step]_vars

\* Two calls for one name with different references, the second a hit.
C1_Witness ==
    /\ Len(calls) >= 2
    /\ calls[1].name = calls[2].name
    /\ calls[1].ref # calls[2].ref
    /\ calls[1].fetched # <<>>
    /\ calls[2].fetched = <<>>
    /\ calls[2].raised = "none"
    /\ Len(AUTHOR_CACHE) = 1

Entries(name) == {i \in DOMAIN AUTHOR_CACHE : AUTHOR_CACHE[i].key = name}

\* C2: every Quote that parse_single_quote has produced (in the list being
\* built for the page, or in all_quotes, up to and after the return of
\* get_quotes) has an author that is a key of AUTHOR_CACHE, with exactly
\* one entry.
C2_AuthorsResolved ==
    /\ \A i \in DOMAIN page_quotes : Cardinality(Entries(page_quotes[i].author)) = 1
    /\ \A i \in DOMAIN all_quotes : Cardinality(Entries(all_quotes[i].author)) = 1

\* get_quotes has returned three quotes or more, by two authors, one of
\* them met twice.
C2_Witness ==
    /\ pc = "write_quotes"
    /\ Len(all_quotes) >= 3
    /\ all_quotes[1].author = all_quotes[2].author
    /\ all_quotes[3].author # all_quotes[1].author
    /\ Len(AUTHOR_CACHE) = 2

\* C7: a call of parse_single_author that raises (the fetch fails, or one
\* of the four fields is absent) leaves AUTHOR_CACHE exactly as it was.
C7_NoInsertOnFailure ==
    [][(error' # error /\ error'.at = "author") => AUTHOR_CACHE' = AUTHOR_CACHE]_vars

\* The resolution of a second author failed on a missing field, after a
\* first author had been stored.
C7_Witness ==
    /\ pc = "failed"
    /\ error = Raise("AttributeError", "author")
    /\ Len(AUTHOR_CACHE) = 1
    /\ ~non2xx
    /\ Last(trace).ev = "fetch_author"
    /\ Last(trace).name \notin Keys(AUTHOR_CACHE)


\* get_quotes has returned to main.
Returned ==
    \/ pc \in {"write_quotes", "write_authors", "done"}
    \/ pc = "failed" /\ error.at \in {"quotes_csv", "author_csv"}

\* The url of listing page i: the root, then page/2/, page/3/, ...
ExpectedUrl(i) ==
    [host |-> "quotes.toscrape.com",
     path |-> IF i = 1 THEN <<>> ELSE <<"page", ToString(i)>>]

\* C3: the listing pages are requested in the order root, page/2/, ...,
\* each once and none beyond the last page of the chain; a run in which no
\* fetch failed goes on (is never stuck) until get_quotes returns, and it
\* has then requested exactly the chain_len pages of the chain.
C3_Pagination ==
    /\ \A i \in DOMAIN Fetched : Fetched[i].url = ExpectedUrl(i) /\ Fetched[i].page = i
    /\ Len(Fetched) <= chain_len
    /\ (Returned /\ ~non2xx) => Len(Fetched) = chain_len
    /\ (pc \notin {"done", "failed"}) => ENABLED Next

\* A chain of two pages or more has been walked and get_quotes has returned.
C3_Witness ==
    /\ pc = "write_quotes"
    /\ ~non2xx
    /\ chain_len >= 2
    /\ Len(Fetched) = chain_len
    /\ soup.next = FALSE

RECURSIVE Flatten(_)
Flatten(pages) == IF pages = <<>> THEN <<>> ELSE Head(pages) \o Flatten(Tail(pages))

\* The tags field of a row, as Python prints the list.
TagsField(tags) ==
    IF tags = <<>> THEN "[]"
    ELSE IF tags = <<"life", "life">> THEN "['life', 'life']"
    ELSE "?"

\* C4: when get_quotes returns, all_quotes holds one Quote per quote
\* container of the pages read, in page order and then document order, with
\* the container's text, author and tags; if no fetch failed these are all
\* the N containers of the P pages of the site.  The quotes file holds the
\* header and then one row per quote, in the same order.
C4_QuotesInOrder ==
    LET flat == Flatten(listing) IN
    /\ Returned =>
          /\ Len(all_quotes) = Len(flat)
          /\ \A i \in DOMAIN flat :
                all_quotes[i] = [text |-> flat[i].text, author |-> flat[i].author,
                                 tags |-> flat[i].tags]
          /\ \A k \in DOMAIN listing : Len(listing[k]) = Fetched[k].quotes
    /\ (Returned /\ ~non2xx) => Len(listing) = chain_len
    /\ quotes_csv.written =>
          /\ Len(quotes_csv.rows) = 1 + Len(flat)
          /\ quotes_csv.rows[1] = <<"text", "author", "tags">>
          /\ \A i \in DOMAIN flat :
                quotes_csv.rows[i + 1] =
                    <<flat[i].text, flat[i].author, TagsField(flat[i].tags)>>

\* Three quotes or more over two pages have been written.
C4_Witness ==
    /\ quotes_csv.written
    /\ ~non2xx
    /\ Len(listing) >= 2
    /\ Len(listing[1]) >= 1
    /\ Len(listing[2]) >= 2
    /\ Len(quotes_csv.rows) >= 4

\* C5 (as claimed): once a fetch has failed (transport failure or non-2xx
\* response) or an extraction has failed, get_quotes does not return.
C5_AbortOnAnyFailure ==
    (non2xx \/ error.at \in {"listing", "author", "quote"}) => ~Returned

\* C6 (as claimed): a non-2xx response is a fetch failure, never page
\* content that is parsed.
C6_Non2xxIsFetchError ==
    non2xx => (pc = "failed" /\ error.exc = "RequestException")

\* C8 (as claimed): after a successful run the authors file holds, for the
\* author of every quote, exactly one row whose name field is that author.
C8_OneRowPerQuoteAuthor ==
    pc = "done" =>
        \A i \in DOMAIN all_quotes :
            Cardinality({j \in 2..Len(author_csv.rows) :
                            author_csv.rows[j][1] = all_quotes[i].author}) = 1

\* A quote container read so far lacks a node parse_single_quote needs.
MissingFieldRead ==
    \E k \in DOMAIN listing : \E i \in DOMAIN listing[k] :
        \/ listing[k][i].text = None
        \/ listing[k][i].author = None
        \/ listing[k][i].a # "href"

\* C9: once a quote container lacking a required node has been read, main
\* is aborted (by the extraction failure, or by a failure of the author's
\* resolution raised in the same container before the missing node is
\* reached) and neither file is written.  The quotes file is written only
\* after get_quotes has returned, author.csv only after the quotes file.
C9_NoFilesOnExtractionFailure ==
    /\ MissingFieldRead =>
          /\ pc = "failed"
          /\ error.at \in {"quote", "author"}
          /\ (error.at = "quote" => error.exc \in {"AttributeError", "TypeError", "KeyError"})
          /\ ~quotes_csv.written
          /\ ~author_csv.written
    /\ error.at = "quote" => MissingFieldRead
    /\ quotes_csv.written => (Returned /\ pc # "write_quotes")
    /\ author_csv.written => (quotes_csv.written /\ pc = "done")

\* On the second page a container without .text ended the run, after its
\* author had been resolved.
C9_Witness ==
    /\ pc = "failed"
    /\ error = Raise("AttributeError", "quote")
    /\ CurPage = 2
    /\ Last(Last(listing)).text = None
    /\ Last(trace).ev \in {"resolve", "fetch_author"}
    /\ Len(AUTHOR_CACHE) >= 1
    /\ ~quotes_csv.written
    /\ ~author_csv.written

\* Event next may directly follow event prev.
Follows(prev, next) ==
    IF next.ev = "fetch_listing"
    THEN /\ next.page = prev.page + 1
         /\ \/ prev.ev = "quote" /\ prev.idx = Fetched[prev.page].quotes
            \/ prev.ev = "fetch_listing" /\ prev.quotes = 0
    ELSE /\ next.page = prev.page
         /\ next.ev = "resolve" =>
               prev.ev \in {"fetch_listing", "quote"} /\ next.idx = prev.idx + 1
         /\ next.ev = "fetch_author" =>
               prev.ev = "resolve" /\ next.idx = prev.idx /\ next.name = prev.name
         /\ next.ev = "quote" =>
               prev.ev \in {"resolve", "fetch_author"} /\ next.idx = prev.idx

\* C10: the run is a sequence of pages, each fetched and then fully
\* processed before the next is requested; within a page the containers are
\* taken in order, and for each the author is resolved (and fetched on a
\* miss) before its Quote is produced and before the next one is begun.
C10_PageByPage ==
    /\ trace # <<>> => (trace[1].ev = "fetch_listing" /\ trace[1].page = 1)
    /\ \A i \in 1..(Len(trace) - 1) : Follows(trace[i], trace[i + 1])

\* Two quotes of page 1, each with an author fetch, then page 2 and a quote
\* of it.
C10_Witness ==
    /\ Len(Fetched) = 2
    /\ Fetched[1].quotes = 2
    /\ Len(SelectSeq(trace, LAMBDA e : e.ev = "fetch_author" /\ e.page = 1)) = 2
    /\ Last(trace).ev = "quote"
    /\ Last(trace).page = 2

====
